---- MODULE Spec2Model ----
\* Project store (observer pattern), its List Views and arbitrary subscribers
\* of the drag-and-drop project tracker.  Project objects and arrays live on a
\* heap, so that "same object" and "copy" are different things, as they are in
\* the running program.
EXTENDS Integers, Sequences, FiniteSets, TLC

\* ---------------------------------------------------------------- bounds
MaxProjects == 2
MaxListeners == 2
MaxChanges == 3
MaxSubmits == 1
MaxGets == 2

\* ---------------------------------------------------------------- inputs
\* Values Math.random().toString() may return; nothing keeps two calls apart.
Ids == {"0.1", "0.2"}
\* A plain-text drag payload that is no project's id.
ForeignText == "0.9"
Titles == {"Build CLI"}
Descriptions == {"A tool."}
PeopleCounts == {3}

Active == "Active"
Finished == "Finished"
ProjectStatus == {Active, Finished}

ViewTypes == {"active", "finished"}
SubscriberKinds == {"keep", "mutArr", "mutRec", "throws"}

\* Reference values: Null is "undefined", StoreArr is the array this.projects.
Null == 0
StoreArr == 0

VARIABLES
  heap,       \* Project objects: heap[r] is the object behind reference r
  arrays,     \* array objects: arrays[StoreArr] is this.projects, arrays[n]
              \* is the array last handed to the listener registered n-th
  listeners,  \* this.listeners, each entry with its closure's state
  rendered,   \* rendered[t]: ids of the <li> items inside the first
              \* <ul id="t-projects-list"> of the document
  changes,    \* number of calls that changed the project set so far
  lastOp,     \* the last store call: arguments, outcome, deliveries made
  form,       \* ProjectInput: the three input fields and the last submit
  drag,       \* the drag in progress and the last drop
  setup       \* ProjectState.instance, getInstance calls, last constructor

vars ==
  <<heap, arrays, listeners, rendered, changes, lastOp, form, drag, setup>>

uiVars == <<form, drag, setup>>

projects == arrays[StoreArr]

\* ---------------------------------------------------------------- helpers
Reverse(s) == [k \in 1..Len(s) |-> s[Len(s) + 1 - k]]

Front(s) == IF s = <<>> THEN s ELSE SubSeq(s, 1, Len(s) - 1)

Range(s) == {s[k] : k \in 1..Len(s)}

NoOp ==
  [op |-> "none", id |-> "", status |-> Active, project |-> Null,
   changed |-> FALSE, threw |-> FALSE, log |-> <<>>]

\* ---------------------------------------------------------------- Project
NewProjectFinished(id, title, description, numOfPeople) ==
  [id |-> id, title |-> title, description |-> description,
   people |-> numOfPeople, status |-> Finished]

\* new Project(Math.random().toString(), title, description, numOfPeople,
\*             ProjectStatus.Active)
NewProject(id, title, description, numOfPeople) ==
  [id |-> id, title |-> title, description |-> description,
   people |-> numOfPeople, status |-> Active]

\* ---------------------------------------------------------------- arrays
PushFront(items, r) == <<r>> \o items

\* Array.prototype.push
Push(items, r) == Append(items, r)

FindLast(items, h, projectId) ==
  LET hits == {k \in 1..Len(items) : h[items[k]].id = projectId}
  IN IF hits = {} THEN Null
     ELSE items[CHOOSE k \in hits : \A j \in hits : k >= j]

\* this.projects.find((proj) => proj.id === projectId): the first match, or
\* undefined.
Find(items, h, projectId) ==
  LET hits == {k \in 1..Len(items) : h[items[k]].id = projectId}
  IN IF hits = {} THEN Null
     ELSE items[CHOOSE k \in hits : \A j \in hits : k <= j]

SliceAlias(arrs, src, dst) == [arrays |-> arrs, ref |-> src]

\* Array.prototype.slice(): a new array object holding the same element
\* references; dst is the fresh object.
Slice(arrs, src, dst) ==
  [arrays |-> [arrs EXCEPT ![dst] = arrs[src]], ref |-> dst]

\* ---------------------------------------------------------------- List View
TypeStatus(type) == IF type = "active" THEN Active ELSE Finished

IsListView(l) == l.kind \in ViewTypes

RelevantAll(items, h, type) == items

\* projects.filter(...) of the listener ProjectList.configure registers.
Relevant(items, h, type) ==
  SelectSeq(items,
            LAMBDA r : IF type = "active" THEN h[r].status = Active
                       ELSE h[r].status = Finished)

\* renderProjects: the list element is emptied, then one ProjectItem per
\* assigned project is attached to it; each <li> gets the project's id.
RenderProjects(assigned, h) == [k \in 1..Len(assigned) |-> h[assigned[k]].id]

\* ---------------------------------------------------------------- listeners
\* The closure a listener function carries.  kind is the List View's type for
\* the listener of a ProjectList, otherwise what the subscriber does with the
\* array it is handed.  seq, calls and regAt record when it was registered
\* and how often it has been invoked.
NewListener(kind, n, at) ==
  [seq |-> n, kind |-> kind, assignedProjects |-> <<>>, snap |-> Null,
   calls |-> 0, regAt |-> at]

Unshift(ls, l) == <<l>> \o ls

AddListenerAndCall(ls, l) ==
  Append(ls, [l EXCEPT !.calls = 1, !.assignedProjects = projects])

\* State.addListener: this.listeners.push(listenerFn)
AddListenerFn(ls, l) == Append(ls, l)

\* What the subscriber sees: the array it was handed and the records in it.
Delivery(st, i, a) ==
  [seq |-> st.listeners[i].seq, ref |-> a, items |-> st.arrays[a],
   seen |-> [k \in 1..Len(st.arrays[a]) |-> st.heap[st.arrays[a][k]]]]

SetStatus(h, r, s) ==
  [k \in DOMAIN h |-> IF k = r THEN [h[k] EXCEPT !.status = s] ELSE h[k]]

\* listenerFn(items) for the i-th entry of this.listeners, items being the
\* array object a.
CallListener(st, i, a) ==
  LET l == st.listeners[i]
      entered == [st EXCEPT !.log = Append(@, Delivery(st, i, a)),
                            !.listeners[i].calls = @ + 1]
  IN CASE l.kind \in ViewTypes ->
            \* ProjectList.configure's listener: filter, keep, re-render
            LET relevantProjects == Relevant(st.arrays[a], st.heap, l.kind)
            IN [entered EXCEPT
                  !.listeners[i].assignedProjects = relevantProjects,
                  !.rendered[l.kind] = RenderProjects(relevantProjects, st.heap)]
       [] l.kind = "keep" ->
            [entered EXCEPT !.listeners[i].snap = a]
       [] l.kind = "mutArr" ->
            \* items.reverse(); items.pop();
            [entered EXCEPT !.listeners[i].snap = a,
                            !.arrays[a] = Front(Reverse(@))]
       [] l.kind = "mutRec" ->
            \* if (items.length) items[0].status = ProjectStatus.Finished;
            IF st.arrays[a] = <<>> THEN entered
            ELSE [entered EXCEPT
                    !.heap = SetStatus(@, st.arrays[a][1], Finished)]
       [] l.kind = "throws" ->
            [entered EXCEPT !.threw = TRUE]

\* ProjectState.updateListeners: for (const listenerFn of this.listeners)
\* listenerFn(this.projects.slice()); an exception leaves the loop.
RECURSIVE UpdateListeners(_, _)
UpdateListeners(st, i) ==
  IF i > Len(st.listeners) THEN st
  ELSE LET copy == Slice(st.arrays, StoreArr, st.listeners[i].seq)
           called == CallListener([st EXCEPT !.arrays = copy.arrays],
                                  i, copy.ref)
       IN IF called.threw THEN called ELSE UpdateListeners(called, i + 1)

Running ==
  [heap |-> heap, arrays |-> arrays, listeners |-> listeners,
   rendered |-> rendered, log |-> <<>>, threw |-> FALSE]

Commit(st) ==
  /\ heap' = st.heap
  /\ arrays' = st.arrays
  /\ listeners' = st.listeners
  /\ rendered' = st.rendered

\* ---------------------------------------------------------------- store
ShouldMoveIfFound(h, project, newStatus) == project # Null

ShouldMoveAlways(h, project, newStatus) ==
  project = Null \/ h[project].status # newStatus

\* if (project && project.status !== newStatus)
ShouldMove(h, project, newStatus) ==
  project # Null /\ h[project].status # newStatus

NotifyThenChange(st, project, newStatus) ==
  LET done == UpdateListeners(st, 1)
  IN [done EXCEPT !.heap = SetStatus(@, project, newStatus)]

\* project.status = newStatus; this.updateListeners();
ChangeStatus(st, project, newStatus) ==
  UpdateListeners([st EXCEPT !.heap = SetStatus(@, project, newStatus)], 1)

\* ProjectState.addProject
AddProject(id, title, description, numOfPeople) ==
  /\ Len(heap) < MaxProjects
  /\ changes < MaxChanges
  /\ LET newProject == Len(heap) + 1
         pushed == [Running EXCEPT
                      !.heap = Append(@, NewProject(id, title, description,
                                                    numOfPeople)),
                      !.arrays[StoreArr] = Push(@, newProject)]
         done == UpdateListeners(pushed, 1)
     IN /\ Commit(done)
        /\ lastOp' = [op |-> "add", id |-> id, status |-> Active,
                      project |-> newProject, changed |-> TRUE,
                      threw |-> done.threw, log |-> done.log]
  /\ changes' = changes + 1

\* ProjectState.moveProject
MoveProject(projectId, newStatus) ==
  LET project == Find(projects, heap, projectId)
  IN IF ShouldMove(heap, project, newStatus)
     THEN /\ changes < MaxChanges
          /\ LET done == ChangeStatus(Running, project, newStatus)
             IN /\ Commit(done)
                /\ lastOp' = [op |-> "move", id |-> projectId,
                              status |-> newStatus, project |-> project,
                              changed |-> TRUE, threw |-> done.threw,
                              log |-> done.log]
          /\ changes' = changes + 1
     ELSE /\ lastOp' = [op |-> "move", id |-> projectId,
                        status |-> newStatus, project |-> project,
                        changed |-> FALSE, threw |-> FALSE, log |-> <<>>]
          /\ UNCHANGED <<heap, arrays, listeners, rendered, changes>>

\* new ProjectList(type): assignedProjects = []; configure() registers the
\* listener; renderSectionContent() names the list element and the heading.
NewProjectList(type) ==
  /\ Len(listeners) < MaxListeners
  /\ listeners' = AddListenerFn(listeners,
                                NewListener(type, Len(listeners) + 1, changes))
  /\ UNCHANGED <<heap, arrays, rendered, changes, lastOp>>

\* projectState.addListener(fn) for a subscriber that is not a List View.
AddListener(kind) ==
  /\ Len(listeners) < MaxListeners
  /\ listeners' = AddListenerFn(listeners,
                                NewListener(kind, Len(listeners) + 1, changes))
  /\ UNCHANGED <<heap, arrays, rendered, changes, lastOp>>

\* ---------------------------------------------------------------- strings
\* A string is the sequence of its characters; a number is nan or a count of
\* tenths, which is exact for the field values below (at most one digit
\* after the point).
Rep(c, n) == [k \in 1..n |-> c]

Digits == <<"0", "1", "2", "3", "4", "5", "6", "7", "8", "9">>

IsDigit(c) == \E d \in 1..Len(Digits) : Digits[d] = c

DigitValue(c) == (CHOOSE d \in 1..Len(Digits) : Digits[d] = c) - 1

NaN == [t |-> "number", nan |-> TRUE, tenths |-> 0]

Num(tenths) == [t |-> "number", nan |-> FALSE, tenths |-> tenths]

Str(s) == [t |-> "string", s |-> s]

RECURSIVE TrimStart(_)
TrimStart(s) ==
  IF s # <<>> /\ Head(s) = " " THEN TrimStart(Tail(s)) ELSE s

RECURSIVE TrimEnd(_)
TrimEnd(s) ==
  IF s # <<>> /\ s[Len(s)] = " " THEN TrimEnd(Front(s)) ELSE s

\* String.prototype.trim
Trim(s) == TrimEnd(TrimStart(s))

RECURSIVE DigitsValue(_)
DigitsValue(s) ==
  IF s = <<>> THEN 0 ELSE 10 * DigitsValue(Front(s)) + DigitValue(s[Len(s)])

\* The unary plus of +enteredPeople: white space is trimmed, the empty string
\* is 0, an optionally signed decimal literal is its value, anything else is
\* NaN.
ToNumber(s) ==
  LET t == Trim(s)
      signed == t # <<>> /\ Head(t) \in {"-", "+"}
      body == IF signed THEN Tail(t) ELSE t
      points == {k \in 1..Len(body) : body[k] = "."}
      point == IF points = {} THEN Len(body) + 1
               ELSE CHOOSE k \in points : TRUE
      whole == SubSeq(body, 1, point - 1)
      frac == SubSeq(body, point + 1, Len(body))
      wellFormed ==
        /\ Cardinality(points) <= 1
        /\ Len(whole) + Len(frac) > 0
        /\ Len(frac) <= 1
        /\ \A k \in 1..Len(body) : k # point => IsDigit(body[k])
      magnitude == 10 * DigitsValue(whole) +
                   (IF frac = <<>> THEN 0 ELSE DigitValue(frac[1]))
  IN IF t = <<>> THEN Num(0)
     ELSE IF ~wellFormed THEN NaN
     ELSE IF signed /\ Head(t) = "-" THEN Num(0 - magnitude)
     ELSE Num(magnitude)

RECURSIVE NatToString(_)
NatToString(n) ==
  IF n < 10 THEN <<Digits[n + 1]>>
  ELSE NatToString(n \div 10) \o <<Digits[(n % 10) + 1]>>

\* Number.prototype.toString
NumberToString(v) ==
  IF v.nan THEN <<"N", "a", "N">>
  ELSE LET m == IF v.tenths < 0 THEN 0 - v.tenths ELSE v.tenths
       IN (IF v.tenths < 0 THEN <<"-">> ELSE <<>>)
          \o NatToString(m \div 10)
          \o (IF m % 10 = 0 THEN <<>> ELSE <<".", Digits[(m % 10) + 1]>>)

\* obj.value.toString()
ValueToString(v) == IF v.t = "string" THEN v.s ELSE NumberToString(v)

\* ---------------------------------------------------------------- validation
Has(obj, prop) == prop \in DOMAIN obj

ValidateLengthOnly(obj) ==
  /\ (Has(obj, "minLength") /\ obj.value.t = "string")
       => Len(obj.value.s) >= obj.minLength
  /\ (Has(obj, "maxLength") /\ obj.value.t = "string")
       => Len(obj.value.s) <= obj.maxLength
  /\ (Has(obj, "min") /\ obj.value.t = "number")
       => (~obj.value.nan /\ obj.value.tenths >= 10 * obj.min)
  /\ (Has(obj, "max") /\ obj.value.t = "number")
       => (~obj.value.nan /\ obj.value.tenths <= 10 * obj.max)

\* validate(obj): every check that applies must pass; a comparison with NaN
\* is false.
Validate(obj) ==
  /\ (Has(obj, "required") /\ obj.required)
       => Len(Trim(ValueToString(obj.value))) # 0
  /\ (Has(obj, "minLength") /\ obj.value.t = "string")
       => Len(obj.value.s) >= obj.minLength
  /\ (Has(obj, "maxLength") /\ obj.value.t = "string")
       => Len(obj.value.s) <= obj.maxLength
  /\ (Has(obj, "min") /\ obj.value.t = "number")
       => (~obj.value.nan /\ obj.value.tenths >= 10 * obj.min)
  /\ (Has(obj, "max") /\ obj.value.t = "number")
       => (~obj.value.nan /\ obj.value.tenths <= 10 * obj.max)

\* ---------------------------------------------------------------- form
\* Raw values of the three fields.
TitleInputs == {<<>>, <<" ">>, <<"a">>}
DescriptionInputs ==
  {<<>>, <<"a">>, <<"a", "b">>, <<" ", " ">>, Rep("a", 280), Rep("a", 281)}
PeopleInputs ==
  {<<>>, <<"0">>, <<"1">>, <<"5">>, <<"6">>, <<"2", ".", "5">>, <<"a">>}

NoSubmit ==
  [result |-> "none", title |-> <<>>, description |-> <<>>, people |-> <<>>,
   trace |-> <<>>]

NoForm ==
  [title |-> <<>>, description |-> <<>>, people |-> <<>>, last |-> NoSubmit]

TitleValidatable(f) == [value |-> Str(f.title), required |-> TRUE]

DescriptionValidatable(f) ==
  [value |-> Str(f.description), required |-> TRUE, minLength |-> 2,
   maxLength |-> 280]

PeopleValidatable(f) ==
  [value |-> ToNumber(f.people), required |-> TRUE, min |-> 1, max |-> 5]

AllInvalid(f) ==
  /\ ~Validate(TitleValidatable(f))
  /\ ~Validate(DescriptionValidatable(f))
  /\ ~Validate(PeopleValidatable(f))

\* The condition under which getUserInput alerts and returns nothing.
AnyInvalid(f) ==
  \/ ~Validate(TitleValidatable(f))
  \/ ~Validate(DescriptionValidatable(f))
  \/ ~Validate(PeopleValidatable(f))

ClearNothing(f) == f

\* ProjectInput.clearInputs
ClearInputs(f) ==
  [f EXCEPT !.title = <<>>, !.description = <<>>, !.people = <<>>]

Submitted(f, result, trace) ==
  [result |-> result, title |-> f.title, description |-> f.description,
   people |-> f.people, trace |-> trace]

\* ProjectInput.handleSubmit with getUserInput: an invalid input alerts and
\* returns; a valid one goes to projectState.addProject, then the fields are
\* cleared (not when addProject throws).
HandleSubmit(id) ==
  /\ UNCHANGED <<drag, setup>>
  /\ IF AnyInvalid(form)
     THEN /\ form' = [form EXCEPT !.last = Submitted(form, "alert", <<"alert">>)]
          /\ UNCHANGED <<heap, arrays, listeners, rendered, changes, lastOp>>
     ELSE /\ AddProject(id, form.title, form.description, ToNumber(form.people))
          /\ form' =
               IF lastOp'.threw
               THEN [form EXCEPT
                       !.last = Submitted(form, "threw", <<"addProject">>)]
               ELSE [ClearInputs(form) EXCEPT
                       !.last = Submitted(form, "added",
                                          <<"addProject", "clearInputs">>)]

\* The user fills in the empty form (as long as fewer than MaxSubmits
\* projects came out of it).
TypeInput(title, description, people) ==
  /\ form.title = <<>> /\ form.description = <<>> /\ form.people = <<>>
  /\ Len(heap) < MaxSubmits
  /\ form' = [form EXCEPT !.title = title, !.description = description,
                          !.people = people]
  /\ UNCHANGED <<heap, arrays, listeners, rendered, changes, lastOp, drag, setup>>

NoDrag == [project |-> Null, data |-> "", on |-> Null]

Loaded == [instance |-> 1, created |-> 1, gets |-> 1, got |-> 1, made |-> <<>>]

\* ---------------------------------------------------------------- behaviours
Init ==
  /\ heap = <<>>
  /\ arrays = [a \in 0..MaxListeners |-> <<>>]
  /\ listeners = <<>>
  /\ rendered = [t \in ViewTypes |-> <<>>]
  /\ changes = 0
  /\ lastOp = NoOp
  /\ form = NoForm
  /\ drag = NoDrag
  /\ setup = Loaded

DoAddProject ==
  /\ UNCHANGED uiVars
  /\ \E id \in Ids, title \in Titles, description \in Descriptions,
        numOfPeople \in PeopleCounts :
       AddProject(id, title, description, numOfPeople)

DoMoveProject ==
  /\ UNCHANGED uiVars
  /\ \E projectId \in Ids \cup {ForeignText}, newStatus \in ProjectStatus :
       MoveProject(projectId, newStatus)

DoNewProjectList ==
  /\ UNCHANGED uiVars
  /\ \E type \in ViewTypes : NewProjectList(type)

DoAddListener ==
  /\ UNCHANGED uiVars
  /\ \E kind \in SubscriberKinds : AddListener(kind)

\* The application: List Views are the only subscribers.
Next == DoNewProjectList \/ DoAddProject \/ DoMoveProject

Spec == Init /\ [][Next]_vars

\* The store used through its public interface by subscribers of any kind.
NextStore == DoAddListener \/ DoAddProject \/ DoMoveProject

SpecStore == Init /\ [][NextStore]_vars

\* The application as app.ts wires it: the form and the two lists exist
\* before the user does anything; the user fills in the form and submits.
InitForm ==
  /\ heap = <<>>
  /\ arrays = [a \in 0..MaxListeners |-> <<>>]
  /\ listeners = <<NewListener("active", 1, 0), NewListener("finished", 2, 0)>>
  /\ rendered = [t \in ViewTypes |-> <<>>]
  /\ changes = 0
  /\ lastOp = NoOp
  /\ form = NoForm
  /\ drag = NoDrag
  /\ setup = Loaded

DoTypeInput ==
  \E title \in TitleInputs, description \in DescriptionInputs,
     people \in PeopleInputs :
    TypeInput(title, description, people)

DoHandleSubmit == \E id \in Ids : HandleSubmit(id)

NextForm == DoTypeInput \/ DoHandleSubmit

SpecForm == InitForm /\ [][NextForm]_vars

\* ---------------------------------------------------------------- drag and drop
\* ProjectItem.dragStartHandler of the k-th item a List View rendered:
\* setData("text/plain", this.project.id).
DragStartHandler(i, k) ==
  /\ IsListView(listeners[i])
  /\ k \in 1..Len(listeners[i].assignedProjects)
  /\ LET project == listeners[i].assignedProjects[k]
     IN drag' = [project |-> project, data |-> heap[project].id, on |-> Null]
  /\ UNCHANGED <<heap, arrays, listeners, rendered, changes, lastOp, form, setup>>

\* A drag of plain text that did not start on a project item.
DragForeignText ==
  /\ drag' = [project |-> Null, data |-> ForeignText, on |-> Null]
  /\ UNCHANGED <<heap, arrays, listeners, rendered, changes, lastOp, form, setup>>

\* ProjectList.dropHandler of the List View registered i-th, ending the drag
\* in progress.
DropHandler(i) ==
  /\ IsListView(listeners[i])
  /\ drag.data # "" /\ drag.on = Null
  /\ LET projectId == drag.data
     IN MoveProject(projectId, TypeStatus(listeners[i].kind))
  /\ drag' = [drag EXCEPT !.on = listeners[i].seq]
  /\ UNCHANGED <<form, setup>>

DoDragStart ==
  \E i \in 1..Len(listeners) :
    \E k \in 1..Len(listeners[i].assignedProjects) : DragStartHandler(i, k)

DoDrop == \E i \in 1..Len(listeners) : DropHandler(i)

\* The lists in use: projects are added, items are dragged and dropped.
NextDrag ==
  DoNewProjectList \/ DoAddProject \/ DoDragStart \/ DragForeignText \/ DoDrop

SpecDrag == Init /\ [][NextDrag]_vars

\* ---------------------------------------------------------------- construction
\* What a constructor calls once ComponentBase's constructor has run, which
\* ends with this.attach(insertAtStart).
ProjectInputCtor == <<"attach", "configure">>

ProjectListCtor == <<"attach", "configure", "renderSectionContent">>

ProjectItemCtorRenderFirst == <<"attach", "renderContent", "configure">>

ProjectItemCtor == <<"attach", "configure", "renderContent">>

Made(kind, trace) == [kind |-> kind, trace |-> trace]

\* The ProjectItems renderProjects constructs during one notification: one
\* per assigned project of every List View invoked, in that order.
RECURSIVE ItemsMade(_, _)
ItemsMade(ls, i) ==
  IF i > Len(ls) THEN <<>>
  ELSE (IF IsListView(ls[i])
        THEN [k \in 1..Len(ls[i].assignedProjects) |->
                Made("ProjectItem", ProjectItemCtor)]
        ELSE <<>>)
       \o ItemsMade(ls, i + 1)

NotLoaded ==
  [instance |-> Null, created |-> 0, gets |-> 0, got |-> Null, made |-> <<>>]

GetInstanceAlwaysNew(su) ==
  [su EXCEPT !.instance = su.created + 1, !.created = @ + 1,
             !.got = su.created + 1, !.gets = @ + 1]

\* ProjectState.getInstance: the instance if there is one, else a new one
\* that is kept.
GetInstanceResult(su) ==
  IF su.instance # Null
  THEN [su EXCEPT !.got = su.instance, !.gets = @ + 1]
  ELSE [su EXCEPT !.instance = su.created + 1, !.created = @ + 1,
                  !.got = su.created + 1, !.gets = @ + 1]

\* ProjectState.getInstance(), first called when project-state is imported.
GetInstance ==
  /\ setup.gets < MaxGets
  /\ setup' = [GetInstanceResult(setup) EXCEPT !.made = <<>>]
  /\ UNCHANGED <<heap, arrays, listeners, rendered, changes, lastOp, form, drag>>

\* new ProjectInput()
NewProjectInput ==
  /\ setup.instance # Null
  /\ form' = NoForm
  /\ setup' = [setup EXCEPT !.made = <<Made("ProjectInput", ProjectInputCtor)>>]
  /\ UNCHANGED <<heap, arrays, listeners, rendered, changes, lastOp, drag>>

\* new ProjectList(type), with what its constructor calls
ConstructProjectList(type) ==
  /\ setup.instance # Null
  /\ NewProjectList(type)
  /\ setup' = [setup EXCEPT !.made = <<Made("ProjectList", ProjectListCtor)>>]
  /\ UNCHANGED <<form, drag>>

\* addProject, with the ProjectItems the List Views construct on the way
AddAndRender(id, title, description, numOfPeople) ==
  /\ setup.instance # Null
  /\ AddProject(id, title, description, numOfPeople)
  /\ setup' = [setup EXCEPT !.made = ItemsMade(listeners', 1)]
  /\ UNCHANGED <<form, drag>>

InitSetup ==
  /\ heap = <<>>
  /\ arrays = [a \in 0..MaxListeners |-> <<>>]
  /\ listeners = <<>>
  /\ rendered = [t \in ViewTypes |-> <<>>]
  /\ changes = 0
  /\ lastOp = NoOp
  /\ form = NoForm
  /\ drag = NoDrag
  /\ setup = NotLoaded

DoConstructProjectList == \E type \in ViewTypes : ConstructProjectList(type)

DoAddAndRender ==
  \E id \in Ids, title \in Titles, description \in Descriptions,
     numOfPeople \in PeopleCounts :
    AddAndRender(id, title, description, numOfPeople)

\* Start-up: the store is obtained, components are constructed, projects
\* are added.
NextSetup ==
  GetInstance \/ NewProjectInput \/ DoConstructProjectList \/ DoAddAndRender

SpecSetup == InitSetup /\ [][NextSetup]_vars

\* ---------------------------------------------------------------- vocabulary
\* of the properties below
Seqs(log) == [k \in 1..Len(log) |-> log[k].seq]

RegistrationOrder(n) == [k \in 1..n |-> k]

\* The step is a call that changed the project set.
StateChange == changes' = changes + 1

\* The step is a moveProject call (its arguments are lastOp'.id and
\* lastOp'.status).
MoveCall == lastOp'.op = "move" /\ lastOp' # lastOp

\* The project moveProject(id, ..) is about: the first one carrying that id.
IsTarget(r, id) ==
  \E k \in 1..Len(projects) :
    /\ projects[k] = r
    /\ heap[r].id = id
    /\ \A j \in 1..(k - 1) : heap[projects[j]].id # id

StoreFrame == UNCHANGED <<heap, arrays, listeners, rendered, changes>>

\* The store's projects of the status a view type stands for, in store order.
StoreOfStatus(type) ==
  SelectSeq(projects, LAMBDA r : heap[r].status = TypeStatus(type))

IdsOf(refs) == [k \in 1..Len(refs) |-> heap[refs[k]].id]

IsView(l) == l.kind \in ViewTypes

\* The view was there before the first change, or has been notified since.
Synced(l) == l.regAt = 0 \/ l.calls > 0

\* ---------------------------------------------------------------- C1
\* C1: every addProject call makes the project sequence one longer, leaves
\* the earlier elements and their records as they were, appends a new project
\* of status Active as the last element, and notifies every registered
\* subscriber once with a snapshot that contains the new project.
C1_AddAppendsActiveAndNotifies ==
  [][(lastOp'.op = "add" /\ StateChange) =>
       LET new == projects'[Len(projects')]
       IN /\ Len(projects') = Len(projects) + 1
          /\ SubSeq(projects', 1, Len(projects)) = projects
          /\ \A r \in Range(projects) : heap'[r] = heap[r]
          /\ new \notin Range(projects)
          /\ new = lastOp'.project
          /\ heap'[new].id = lastOp'.id
          /\ heap'[new].status = Active
          /\ Len(listeners') = Len(listeners)
          /\ Seqs(lastOp'.log) = RegistrationOrder(Len(listeners))
          /\ \A k \in 1..Len(lastOp'.log) :
               /\ new \in Range(lastOp'.log[k].items)
               /\ lastOp'.log[k].seen[Len(projects')].status = Active]_vars

\* An add on a store that already held a project, with two views notified.
C1_Witness ==
  /\ lastOp.op = "add"
  /\ lastOp.project = 2
  /\ Len(projects) = 2
  /\ Len(lastOp.log) = 2

\* ---------------------------------------------------------------- C2
\* C2: no two projects of the store carry the same id.
C2_IdsUnique ==
  \A j, k \in 1..Len(projects) :
    j # k => heap[projects[j]].id # heap[projects[k]].id

\* ---------------------------------------------------------------- C3
\* C3: moveProject(id, s) for a project that already has status s invokes no
\* subscriber and leaves the project, the sequence, the subscribers and the
\* views as they were; the state being the same, so does every repetition.
C3_SameStatusMoveIsNoOp ==
  [][(MoveCall /\ \E r \in Range(projects) :
                    IsTarget(r, lastOp'.id) /\ heap[r].status = lastOp'.status)
       => /\ StoreFrame
          /\ lastOp'.log = <<>>
          /\ ~lastOp'.changed]_vars

\* A same-status move has been made while two views were subscribed.
C3_Witness ==
  /\ lastOp.op = "move"
  /\ lastOp.project # Null
  /\ heap[lastOp.project].status = lastOp.status
  /\ ~lastOp.changed
  /\ Len(listeners) = 2
  /\ \A i \in 1..Len(listeners) : listeners[i].calls > 0

\* ---------------------------------------------------------------- C4
\* C4: moveProject with an id no project of the store carries leaves the
\* sequence and the records unchanged, invokes no subscriber and raises no
\* error, whichever status is asked for.
C4_UnknownIdMoveIsNoOp ==
  [][(MoveCall /\ \A r \in Range(projects) : heap[r].id # lastOp'.id)
       => /\ StoreFrame
          /\ lastOp'.log = <<>>
          /\ ~lastOp'.changed
          /\ ~lastOp'.threw]_vars

\* A move with an unknown id has been made on a non-empty store with
\* subscribers.
C4_Witness ==
  /\ lastOp.op = "move"
  /\ lastOp.project = Null
  /\ \A r \in Range(projects) : heap[r].id # lastOp.id
  /\ Len(projects) > 0
  /\ Len(listeners) > 0

\* ---------------------------------------------------------------- C5
\* C5: moveProject(id, newStatus) for a project whose status differs sets
\* the project's status to newStatus and then notifies every registered
\* subscriber exactly once with the full sequence, the records in it showing
\* the new status; a view of the old status subscribed from the start held
\* the project and no longer does, a view of the new status the reverse.
C5_MoveChangesStatusAndNotifies ==
  [][\A r \in Range(projects) :
       (MoveCall /\ IsTarget(r, lastOp'.id) /\ heap[r].status # lastOp'.status)
         => /\ heap'[r].status = lastOp'.status
            /\ lastOp'.changed
            /\ Seqs(lastOp'.log) = RegistrationOrder(Len(listeners))
            /\ \A k \in 1..Len(lastOp'.log) :
                 /\ lastOp'.log[k].items = projects
                 /\ lastOp'.log[k].seen =
                      [j \in 1..Len(projects) |-> heap'[projects[j]]]
            /\ \A i \in 1..Len(listeners) :
                 (IsView(listeners[i]) /\ listeners[i].regAt = 0) =>
                   /\ TypeStatus(listeners[i].kind) = heap[r].status =>
                        /\ r \in Range(listeners[i].assignedProjects)
                        /\ r \notin Range(listeners'[i].assignedProjects)
                   /\ TypeStatus(listeners[i].kind) = lastOp'.status =>
                        /\ r \notin Range(listeners[i].assignedProjects)
                        /\ r \in Range(listeners'[i].assignedProjects)]_vars

\* A project has been moved to Finished while an active and a finished view,
\* both subscribed from the start, were registered.
C5_Witness ==
  /\ lastOp.op = "move"
  /\ lastOp.changed
  /\ lastOp.status = Finished
  /\ Len(lastOp.log) = 2
  /\ \E i, j \in 1..Len(listeners) :
       /\ listeners[i].kind = "active" /\ listeners[i].regAt = 0
       /\ listeners[j].kind = "finished" /\ listeners[j].regAt = 0
       /\ lastOp.project \in Range(listeners[j].assignedProjects)

\* ---------------------------------------------------------------- C6
\* C6: every delivery hands over the full current project sequence in
\* insertion order in an array object of its own: it is neither the store's
\* array nor the array of another delivery, so a subscriber that reverses or
\* shortens what it was handed changes neither the store's sequence nor what
\* the subscribers after it, or any later notification, receive.
C6_SnapshotIsIndependentCopy ==
  LET inserted == RegistrationOrder(Len(heap))
  IN /\ projects = inserted
     /\ \A k \in 1..Len(lastOp.log) :
          /\ lastOp.log[k].items = inserted
          /\ lastOp.log[k].ref # StoreArr
          /\ \A j \in 1..Len(lastOp.log) :
               j # k => lastOp.log[j].ref # lastOp.log[k].ref

\* A subscriber has reversed and shortened the array it was handed, two
\* projects being in the store, and another subscriber was notified after it.
C6_Witness ==
  /\ Len(projects) = 2
  /\ Len(lastOp.log) = 2
  /\ listeners[1].kind = "mutArr"
  /\ listeners[1].snap # Null
  /\ arrays[listeners[1].snap] = <<2>>
  /\ listeners[2].kind = "keep"
  /\ arrays[listeners[2].snap] = <<1, 2>>

\* ---------------------------------------------------------------- C7
\* C7: what a subscriber does to a record of the snapshot it was handed does
\* not reach the store: after a call that changed the project set, every
\* record but the one the call is about is as it was, and that one has the
\* status the call gave it.
C7_RecordsAreNotShared ==
  [][StateChange =>
       /\ \A r \in DOMAIN heap :
            r # lastOp'.project => heap'[r] = heap[r]
       /\ heap'[lastOp'.project].status = lastOp'.status]_vars

\* ---------------------------------------------------------------- C8
\* C8: a call that changes the project set invokes every registered
\* subscriber exactly once, in registration order, before it returns; so a
\* subscriber has been invoked once per change made since its registration.
C8_EachChangeNotifiesAllInOrder ==
  [][StateChange =>
       /\ Seqs(lastOp'.log) = RegistrationOrder(Len(listeners))
       /\ Len(listeners') = Len(listeners)
       /\ \A i \in 1..Len(listeners) :
            /\ listeners'[i].seq = i
            /\ listeners'[i].calls = listeners[i].calls + 1
            /\ listeners'[i].calls = changes' - listeners'[i].regAt]_vars

\* Three changes were made; one view saw them all, one was registered after
\* the first and saw two.
C8_Witness ==
  /\ changes = 3
  /\ Len(listeners) = 2
  /\ listeners[1].regAt = 0 /\ listeners[1].calls = 3
  /\ listeners[2].regAt = 1 /\ listeners[2].calls = 2
  /\ Seqs(lastOp.log) = <<1, 2>>

\* ---------------------------------------------------------------- C9
\* C9: when a subscriber throws during a notification, the subscribers
\* registered after it are still invoked for that notification.
C9_ThrowDoesNotStopDelivery ==
  [][(StateChange /\ lastOp'.threw) =>
       \A i \in 1..Len(listeners) :
         listeners'[i].calls = listeners[i].calls + 1]_vars

\* ---------------------------------------------------------------- C10
\* C10 as stated: in every state every List View holds, and shows in its
\* list element, exactly the store's projects of its type, in store order.
C10_FilteringAlways ==
  \A i \in 1..Len(listeners) :
    IsView(listeners[i]) =>
      /\ listeners[i].assignedProjects = StoreOfStatus(listeners[i].kind)
      /\ rendered[listeners[i].kind] = IdsOf(StoreOfStatus(listeners[i].kind))

\* C10 as amended: between operations, a List View that was constructed
\* before the first project was added, or that has been notified since its
\* construction, holds exactly the store's projects of its type, in store
\* order, and the document's list element of that type shows their items in
\* that order; a view constructed later holds an empty list until then.
C10_FilteringOnceSynced ==
  \A i \in 1..Len(listeners) :
    IsView(listeners[i]) =>
      IF Synced(listeners[i])
      THEN /\ listeners[i].assignedProjects = StoreOfStatus(listeners[i].kind)
           /\ rendered[listeners[i].kind] =
                IdsOf(StoreOfStatus(listeners[i].kind))
      ELSE listeners[i].assignedProjects = <<>>

\* An active and a finished view each hold one of the store's two projects,
\* after an add and a move.
C10_Witness ==
  /\ Len(projects) = 2
  /\ lastOp.op = "move" /\ lastOp.changed
  /\ \E i, j \in 1..Len(listeners) :
       /\ listeners[i].kind = "active" /\ Len(listeners[i].assignedProjects) = 1
       /\ listeners[j].kind = "finished" /\ Len(listeners[j].assignedProjects) = 1

\* ---------------------------------------------------------------- form
\* vocabulary
\* The step is a submit of the form.
SubmitStep == form'.last # form.last \/ changes' = changes + 1

\* At least one of the three validation checks fails on the fields of f.
ChecksFail(f) ==
  \/ ~Validate(TitleValidatable(f))
  \/ ~Validate(DescriptionValidatable(f))
  \/ ~Validate(PeopleValidatable(f))

FieldsOf(f) == <<f.title, f.description, f.people>>

\* The people count of a raw field value is a number within [1,5].
PeopleInRange(raw) ==
  /\ ~ToNumber(raw).nan
  /\ ToNumber(raw).tenths >= 10
  /\ ToNumber(raw).tenths <= 50

IsWholeNumber(v) == ~v.nan /\ v.tenths % 10 = 0

\* ---------------------------------------------------------------- C11
\* C11: a submit on which at least one validation check fails shows the
\* invalid-input notice and nothing else: no project is added, no subscriber
\* is notified, the store and the views are as before, and the three fields
\* keep their values.
C11_InvalidSubmitTouchesNothing ==
  [][(SubmitStep /\ ChecksFail(form)) =>
       /\ form'.last.result = "alert"
       /\ form'.last.trace = <<"alert">>
       /\ StoreFrame
       /\ lastOp' = lastOp
       /\ FieldsOf(form') = FieldsOf(form)]_vars

\* An alert was raised for a form whose only fault is a description of 281
\* characters; the fields still hold what was typed.
C11_Witness ==
  /\ form.last.result = "alert"
  /\ form.title = <<"a">>
  /\ Len(form.description) = 281
  /\ form.people = <<"5">>
  /\ heap = <<>>

\* ---------------------------------------------------------------- C12
\* C12: a submit on which all validation checks pass calls addProject
\* exactly once, with the entered title, description and people count, and
\* after that call clears the three fields.
C12_ValidSubmitAddsThenClears ==
  [][(SubmitStep /\ ~ChecksFail(form)) =>
       /\ changes' = changes + 1
       /\ lastOp'.op = "add"
       /\ Len(heap') = Len(heap) + 1
       /\ heap'[Len(heap')].title = form.title
       /\ heap'[Len(heap')].description = form.description
       /\ heap'[Len(heap')].people = ToNumber(form.people)
       /\ form'.last.result = "added"
       /\ form'.last.trace = <<"addProject", "clearInputs">>
       /\ FieldsOf(form') = <<<<>>, <<>>, <<>>>>]_vars

\* A project came out of the form, the active list shows it, the fields are
\* empty again.
C12_Witness ==
  /\ form.last.result = "added"
  /\ form.last.title = <<"a">>
  /\ Len(heap) = 1
  /\ Len(rendered["active"]) = 1
  /\ FieldsOf(form) = <<<<>>, <<>>, <<>>>>

\* ---------------------------------------------------------------- C13
\* C13 as stated: a submission is accepted if and only if the title is
\* non-empty after trimming, the description is non-empty with a length
\* within [2,280], and the people count is numeric and within [1,5].
C13_AcceptedIffStated ==
  form.last.result # "none" =>
    (form.last.result = "added" <=>
       /\ Len(Trim(form.last.title)) # 0
       /\ form.last.description # <<>>
       /\ Len(form.last.description) >= 2
       /\ Len(form.last.description) <= 280
       /\ PeopleInRange(form.last.people))

\* C13 as amended: a submission is accepted if and only if the title is
\* non-empty after trimming, the description is non-empty after trimming
\* with an (untrimmed) length within [2,280], and the people count is
\* numeric and within [1,5]; description lengths 1 and 281 and people counts
\* 0 and 6 are rejected, lengths 2 and 280 and counts 1 and 5 accepted.
C13_AcceptedIffTrimmed ==
  form.last.result # "none" =>
    (form.last.result = "added" <=>
       /\ Len(Trim(form.last.title)) # 0
       /\ Len(Trim(form.last.description)) # 0
       /\ Len(form.last.description) >= 2
       /\ Len(form.last.description) <= 280
       /\ PeopleInRange(form.last.people))

\* A description of 280 characters with 5 people was accepted.
C13_Witness ==
  /\ form.last.result = "added"
  /\ Len(form.last.description) = 280
  /\ form.last.people = <<"5">>

\* ---------------------------------------------------------------- C14
\* C14: every project that came out of the form has a people count that is
\* a whole number between 1 and 5.
C14_PeopleCountIsInteger ==
  \A r \in DOMAIN heap :
    /\ IsWholeNumber(heap[r].people)
    /\ heap[r].people.tenths >= 10
    /\ heap[r].people.tenths <= 50

\* ---------------------------------------------------------------- C15
\* The step is a drop on a List View.
DropStep == drag.on = Null /\ drag'.on # Null

\* C15: a drop on a List View calls moveProject once, with the id read from
\* the drag's plain-text payload and the status of the view dropped on
\* (Active for the active list, Finished for the finished list); so a project
\* item dropped on the list it is in changes nothing, and one dropped on the
\* other list has that list's status afterwards.
C15_DropMovesDraggedProject ==
  [][DropStep =>
       LET targetStatus ==
             IF listeners[drag'.on].kind = "active" THEN Active ELSE Finished
           dragged == drag.project
       IN /\ lastOp'.op = "move"
          /\ lastOp'.id = drag.data
          /\ lastOp'.status = targetStatus
          /\ dragged # Null =>
               IF heap[dragged].status = targetStatus
               THEN StoreFrame /\ lastOp'.log = <<>>
               ELSE heap'[dragged].status = targetStatus]_vars

\* ---------------------------------------------------------------- C16
Count(trace, call) == Cardinality({k \in 1..Len(trace) : trace[k] = call})

\* call a occurs in the trace, and before every occurrence of call b
Before(trace, a, b) ==
  \E j \in 1..Len(trace) :
    /\ trace[j] = a
    /\ \A k \in 1..Len(trace) : trace[k] = b => j < k

\* C16 as stated: constructing any view invokes configure() and
\* renderContent() exactly once each, configure() first, and both after the
\* view's element was attached.
C16_BothHooksOnceInOrder ==
  \A n \in 1..Len(setup.made) :
    LET trace == setup.made[n].trace
    IN /\ Count(trace, "configure") = 1
       /\ Count(trace, "renderContent") = 1
       /\ Before(trace, "configure", "renderContent")
       /\ Before(trace, "attach", "configure")

\* C16 as amended: constructing any view invokes configure() exactly once,
\* after the view's element was attached; a project item view then invokes
\* renderContent() exactly once; a Project List View invokes
\* renderSectionContent() instead and the Project Form View nothing more:
\* their (empty) renderContent() is never invoked.
C16_HooksAsConstructed ==
  \A n \in 1..Len(setup.made) :
    LET trace == setup.made[n].trace
        kind == setup.made[n].kind
    IN /\ Count(trace, "attach") = 1
       /\ Count(trace, "configure") = 1
       /\ Before(trace, "attach", "configure")
       /\ kind = "ProjectItem" =>
            /\ Count(trace, "renderContent") = 1
            /\ Before(trace, "configure", "renderContent")
       /\ kind = "ProjectList" =>
            /\ Count(trace, "renderContent") = 0
            /\ Count(trace, "renderSectionContent") = 1
            /\ Before(trace, "configure", "renderSectionContent")
       /\ kind = "ProjectInput" =>
            /\ Count(trace, "renderContent") = 0
            /\ Len(trace) = 2

\* Two project items were constructed by the active list for the store's
\* two projects.
C16_Witness ==
  /\ Len(projects) = 2
  /\ Len(setup.made) = 2
  /\ \A n \in 1..Len(setup.made) : setup.made[n].kind = "ProjectItem"

\* ---------------------------------------------------------------- C17
\* C17: at most one ProjectState is ever constructed, and every getInstance
\* call returns it: the instance returned last is the one kept, which is the
\* first and only one constructed, so all components share one store.
C17_SingleInstance ==
  /\ setup.created <= 1
  /\ setup.gets > 0 =>
       /\ setup.created = 1
       /\ setup.instance = 1
       /\ setup.got = setup.instance

\* getInstance was called twice, and the store so obtained holds a project
\* and two views.
C17_Witness ==
  /\ setup.gets = 2
  /\ setup.got = 1
  /\ Len(projects) = 1
  /\ Len(listeners) = 2

\* ---------------------------------------------------------------- C18
\* C18: the project sequence is always in creation order and never
\* reordered: after every step any two projects stand in the order of their
\* creation (a project's reference is its creation rank), and every project
\* already in the sequence, a moved one included, is at the position it had.
C18_CreationOrderKept ==
  [][/\ \A j, k \in 1..Len(projects') :
          j < k => projects'[j] < projects'[k]
     /\ Len(projects') >= Len(projects)
     /\ \A k \in 1..Len(projects) : projects'[k] = projects[k]]_vars

\* The first of two projects was moved to Finished after the second was
\* added, and is still first.
C18_Witness ==
  /\ projects = <<1, 2>>
  /\ lastOp.op = "move"
  /\ lastOp.changed
  /\ lastOp.project = 1
  /\ heap[1].status = Finished
  /\ heap[2].status = Active

\* ---------------------------------------------------------------- C19
\* The step registers a subscriber.
Registration == Len(listeners') = Len(listeners) + 1

\* C19: registering a subscriber invokes no subscriber: the call makes no
\* delivery, the subscribers already there are as they were and the new one
\* has not been called and holds an empty list.  A subscriber that has not
\* been called keeps its empty list through every step that is not a change
\* of the project set, and the next change delivers the full project
\* sequence to it, projects created before its registration included.
C19_RegistrationDoesNotNotify ==
  [][/\ Registration =>
          /\ lastOp' = lastOp
          /\ changes' = changes
          /\ \A i \in 1..Len(listeners) : listeners'[i] = listeners[i]
          /\ LET new == listeners'[Len(listeners')]
             IN /\ new.calls = 0
                /\ new.assignedProjects = <<>>
                /\ new.regAt = changes
     /\ \A i \in 1..Len(listeners) :
          listeners[i].calls = 0 =>
            /\ listeners[i].assignedProjects = <<>>
            /\ ~StateChange =>
                 /\ listeners'[i].calls = 0
                 /\ listeners'[i].assignedProjects = <<>>
            /\ StateChange =>
                 /\ listeners'[i].calls = 1
                 /\ \E k \in 1..Len(lastOp'.log) :
                      /\ lastOp'.log[k].seq = listeners[i].seq
                      /\ lastOp'.log[k].items = projects'
                      /\ Len(lastOp'.log[k].items) = Len(heap')]_vars

\* A view constructed after the first project was added has been notified
\* once, by the second addProject, and received both projects.
C19_Witness ==
  /\ Len(projects) = 2
  /\ lastOp.op = "add"
  /\ \E i \in 1..Len(listeners) :
       /\ listeners[i].regAt = 1
       /\ listeners[i].calls = 1
       /\ listeners[i].kind = "active"
       /\ listeners[i].assignedProjects = <<1, 2>>
       /\ \E k \in 1..Len(lastOp.log) :
            /\ lastOp.log[k].seq = listeners[i].seq
            /\ lastOp.log[k].items = <<1, 2>>

\* ---------------------------------------------------------------- C20
\* The subscriber functions registered, in order.
Registered(ls) == [i \in 1..Len(ls) |-> [seq |-> ls[i].seq, kind |-> ls[i].kind]]

\* C20: a moveProject call leaves the project sequence, the number of
\* projects, every project's id, title, description and people count, the
\* status of every project but the first one carrying the id, and the list
\* of registered subscribers as they were; and no step makes the project
\* sequence shorter.
C20_MoveChangesOnlyTargetStatus ==
  [][/\ MoveCall =>
          /\ projects' = projects
          /\ Len(heap') = Len(heap)
          /\ \A r \in DOMAIN heap :
               /\ heap'[r].id = heap[r].id
               /\ heap'[r].title = heap[r].title
               /\ heap'[r].description = heap[r].description
               /\ heap'[r].people = heap[r].people
               /\ ~IsTarget(r, lastOp'.id) => heap'[r].status = heap[r].status
          /\ Registered(listeners') = Registered(listeners)
     /\ Len(projects') >= Len(projects)
     /\ Len(heap') >= Len(heap)]_vars

\* Two projects carry the same id; a move by that id changed the first and
\* left the second Active, a view being registered.
C20_Witness ==
  /\ Len(projects) = 2
  /\ heap[1].id = heap[2].id
  /\ lastOp.op = "move"
  /\ lastOp.changed
  /\ lastOp.id = heap[1].id
  /\ heap[1].status = Finished
  /\ heap[2].status = Active
  /\ Len(listeners) >= 1

====
